---- MODULE Spec2Model ----
(***************************************************************************)
(* Model of pythonserver2.py: a single-process HTTP server (HTTPServer,    *)
(* one request at a time) whose GET handler resolves the request path      *)
(* below the current directory and runs it through the ordered case chain  *)
(* RequestHandler.CASES, and whose POST handler echoes the body.           *)
(*                                                                         *)
(* Strings are sequences of one-character strings, so that startswith,     *)
(* endswith, split and join are computed and not assumed.  A handler call  *)
(* is one action: it logs the case tests it ran (tested), the case         *)
(* actions it ran (acted) and every write to wfile (out).                  *)
(***************************************************************************)
EXTENDS Integers, Sequences, FiniteSets, TLC

VARIABLES fs, CASES, pc, req, res, prev, transport, keep

vars == <<fs, CASES, pc, req, res, prev, transport, keep>>

(***************************************************************************)
(* Strings                                                                 *)
(***************************************************************************)
\* The characters used, in code-point order; SUR stands for a lone
\* surrogate (\udc80..), which os.listdir yields for a file name that is
\* not valid UTF-8 and which str.encode('utf-8') refuses.
Alphabet ==
  <<".", "/", "2", "a", "b", "c", "d", "e", "f", "g", "h", "i", "j", "l",
    "m", "n", "o", "p", "q", "r", "s", "t", "x", "y", "SUR">>

Ord(c) == CHOOSE i \in 1..Len(Alphabet) : Alphabet[i] = c

StartsWith(s, p) == Len(s) >= Len(p) /\ SubSeq(s, 1, Len(p)) = p

EndsWith(s, p) == Len(s) >= Len(p) /\ SubSeq(s, Len(s) - Len(p) + 1, Len(s)) = p

\* s < t in Python's ordering of str (code points, shorter prefix first)
RECURSIVE StrLess(_, _)
StrLess(s, t) ==
  IF t = <<>> THEN FALSE
  ELSE IF s = <<>> THEN TRUE
  ELSE IF s[1] # t[1] THEN Ord(s[1]) < Ord(t[1])
  ELSE StrLess(Tail(s), Tail(t))

\* str.split('/')
RECURSIVE Split(_)
Split(s) ==
  IF \A i \in 1..Len(s) : s[i] # "/" THEN <<s>>
  ELSE LET k == CHOOSE i \in 1..Len(s) :
                  s[i] = "/" /\ \A j \in 1..(i - 1) : s[j] # "/"
       IN <<SubSeq(s, 1, k - 1)>> \o Split(SubSeq(s, k + 1, Len(s)))

\* '/'.join(comps)
RECURSIVE JoinSlash(_)
JoinSlash(comps) ==
  IF comps = <<>> THEN <<>>
  ELSE IF Len(comps) = 1 THEN comps[1]
  ELSE comps[1] \o <<"/">> \o JoinSlash(Tail(comps))

\* the component loop of posixpath.normpath for a path with one leading slash
RECURSIVE NormComps(_, _)
NormComps(comps, new) ==
  IF comps = <<>> THEN new
  ELSE LET comp == Head(comps) IN
       IF comp = <<>> \/ comp = <<".">> THEN NormComps(Tail(comps), new)
       ELSE IF comp # <<".", ".">> \/ (new # <<>> /\ new[Len(new)] = <<".", ".">>)
            THEN NormComps(Tail(comps), Append(new, comp))
       ELSE IF new # <<>>
            THEN NormComps(Tail(comps), SubSeq(new, 1, Len(new) - 1))
       ELSE NormComps(Tail(comps), new)

\* os.path.abspath of an absolute path (one leading slash)
Abspath(s) == <<"/">> \o JoinSlash(NormComps(Split(s), <<>>))

\* os.path.join(a, b) for a relative b
PathJoin(a, b) == IF a = <<>> \/ EndsWith(a, <<"/">>) THEN a \o b ELSE a \o <<"/">> \o b

RECURSIVE DigitCount(_)
DigitCount(n) == IF n < 10 THEN 1 ELSE 1 + DigitCount(n \div 10)

(***************************************************************************)
(* The file system                                                         *)
(***************************************************************************)
\* os.getcwd(): the server root
CWD == <<"/", "s">>

N_a_html == <<"a", ".", "h", "t", "m", "l">>
N_c_css  == <<"c", ".", "c", "s", "s">>
N_j_js   == <<"j", ".", "j", "s">>
N_js     == <<"j", "s">>
N_p_png  == <<"p", ".", "p", "n", "g">>
N_q_jpg  == <<"q", ".", "j", "p", "g">>
N_r_jpeg == <<"r", ".", "j", "p", "e", "g">>
N_t_txt  == <<"t", ".", "t", "x", "t">>
N_x_py   == <<"x", ".", "p", "y">>
N_y_py   == <<"y", ".", "p", "y">>
N_f      == <<"f">>
N_d      == <<"d">>
N_index  == <<"i", "n", "d", "e", "x", ".", "h", "t", "m", "l">>
N_hid    == <<".", "h">>
N_a      == <<"a">>
N_b      == <<"b">>
N_sur    == <<"SUR">>
N_nope   == <<"n", "o", "p", "e">>

InRoot(name) == CWD \o <<"/">> \o name
InD(name) == InRoot(N_d) \o <<"/">> \o name

Sibling == <<"/", "s", "2">>
SiblingFile == Sibling \o <<"/", "x">>
OutsideFile == <<"/", "e">>

File(c, r) == [kind |-> "file", readable |-> r, content |-> c]
Dir(r) == [kind |-> "dir", readable |-> r, content |-> <<>>]
Other == [kind |-> "other", readable |-> TRUE, content |-> <<>>]
None == [kind |-> "none", readable |-> FALSE, content |-> <<>>]

\* the nodes that never change; a script's content is read as <<exit, stdout...>>
FixedNodes ==
  (<<"/">> :> Dir(TRUE)) @@ (CWD :> Dir(TRUE)) @@
  (InRoot(N_c_css) :> File(<<2>>, TRUE)) @@
  (InRoot(N_j_js) :> File(<<3, 3>>, TRUE)) @@
  (InRoot(N_js) :> File(<<4, 4, 4>>, TRUE)) @@
  (InRoot(N_p_png) :> File(<<5>>, TRUE)) @@
  (InRoot(N_q_jpg) :> File(<<6, 6>>, TRUE)) @@
  (InRoot(N_r_jpeg) :> File(<<7>>, TRUE)) @@
  (InRoot(N_t_txt) :> File(<<>>, TRUE)) @@
  (InRoot(N_x_py) :> File(<<0, 8, 8>>, TRUE)) @@
  (InRoot(N_y_py) :> File(<<1, 9>>, TRUE)) @@
  (InRoot(N_f) :> Other) @@
  (InD(N_hid) :> File(<<10>>, TRUE)) @@
  (InD(N_b) :> File(<<11>>, TRUE)) @@
  (InD(N_a) :> File(<<12, 12>>, TRUE)) @@
  (Sibling :> Dir(TRUE)) @@
  (SiblingFile :> File(<<13, 13, 13>>, TRUE)) @@
  (OutsideFile :> File(<<14>>, TRUE))

IndexContent == <<1, 2, 3, 4>>
AHtmlContent == <<15, 16>>

\* the nodes that the environment creates, removes and chmods
AHtmlStates == {None, File(AHtmlContent, TRUE), File(AHtmlContent, FALSE)}
DStates == {Dir(TRUE), Dir(FALSE)}
IndexStates == {None, File(IndexContent, TRUE), File(IndexContent, FALSE), Dir(TRUE)}
SurStates == {None, File(<<>>, TRUE)}

MkFs(a, d, i, u) ==
  (InRoot(N_a_html) :> a) @@ (InRoot(N_d) :> d) @@ (InD(N_index) :> i) @@
  (InD(N_sur) :> u) @@ FixedNodes

FsStates ==
  {MkFs(a, d, i, u) : a \in AHtmlStates, d \in DStates, i \in IndexStates, u \in SurStates}

Node(f, p) == IF p \in DOMAIN f THEN f[p] ELSE None

Exists(f, p) == Node(f, p).kind # "none"
IsFile(f, p) == Node(f, p).kind = "file"
IsDir(f, p) == Node(f, p).kind = "dir"
\* open(p, 'rb') and read() succeed
CanOpen(f, p) == IsFile(f, p) /\ Node(f, p).readable
\* os.listdir(p) succeeds
CanList(f, p) == IsDir(f, p) /\ Node(f, p).readable

\* os.listdir(p): the names directly below p (in no particular order)
ListDirNames(f, p) ==
  LET pre == IF p = <<"/">> THEN p ELSE p \o <<"/">> IN
  {SubSeq(q, Len(pre) + 1, Len(q)) :
     q \in {q \in DOMAIN f : /\ Exists(f, q)
                             /\ Len(q) > Len(pre)
                             /\ StartsWith(q, pre)
                             /\ \A k \in (Len(pre) + 1)..Len(q) : q[k] # "/"}}

\* sorted(names)
RECURSIVE Sorted(_)
Sorted(names) ==
  IF names = {} THEN <<>>
  ELSE LET m == CHOOSE x \in names : \A y \in names \ {x} : StrLess(x, y)
       IN <<m>> \o Sorted(names \ {m})

\* the listing loop without its startswith('.') test
SelectAll(entries) == entries

\* the listing loop of list_dir: the entries that do not start with "."
RECURSIVE SelectVisible(_)
SelectVisible(entries) ==
  IF entries = <<>> THEN <<>>
  ELSE IF StartsWith(Head(entries), <<".">>) THEN SelectVisible(Tail(entries))
  ELSE <<Head(entries)>> \o SelectVisible(Tail(entries))

(***************************************************************************)
(* Responses: what the handler writes to wfile                             *)
(***************************************************************************)
\* lengths of the three page templates with every field empty
ErrorPageLen == 108
ListingPageLen == 134
RootPageLen == 350
\* len(self.date_time_string()) and len(self.command) for GET
DateTimeLen == 29
CommandLen == 3

Bytes(data) == [type |-> "bytes", data |-> data]
\* ERROR_PAGE.format(path=self.path, msg=msg)
ErrorPage(path, msg) == [type |-> "error", path |-> path, msg |-> msg]
\* LISTING_PAGE.format(path=self.path, items='\n'.join(items))
ListingPage(path, items) == [type |-> "listing", path |-> path, items |-> items]
\* '<li><a href="{link}">{entry}</a></li>'
ListItem(link, entry) == [href |-> link, name |-> entry]

\* An error message: its fixed text (kind), the path it quotes, and the
\* text of the library exception it embeds (one opaque token, or none).
Msg(kind, arg, exc) == [kind |-> kind, arg |-> arg, exc |-> exc]

MsgLen(m) ==
  Len(m.arg) + Len(m.exc) +
  CASE m.kind = "not found" -> 12
    [] m.kind = "Unknown object" -> 17
    [] m.kind = "Attempted directory traversal" -> 29
    [] m.kind = "Cannot read file" -> 18
    [] m.kind = "cannot be listed" -> 21
    [] m.kind = "Internal server error" -> 23
    [] m.kind = "CGI script error" -> 18
    [] m.kind = "Error running CGI" -> 19
    [] m.kind = "Error processing POST" -> 23

RECURSIVE ItemsLen(_)
ItemsLen(items) ==
  IF items = <<>> THEN 0
  ELSE 24 + Len(items[1].href) + Len(items[1].name)
       + (IF Len(items) > 1 THEN 1 ELSE 0) + ItemsLen(Tail(items))

\* len(body) in bytes
BodyLen(b) ==
  CASE b.type = "bytes" -> Len(b.data)
    [] b.type = "error" -> ErrorPageLen + 2 * Len(b.path) + MsgLen(b.msg)
    [] b.type = "listing" -> ListingPageLen + 2 * Len(b.path) + ItemsLen(b.items)
    [] b.type = "root" -> RootPageLen + DateTimeLen + Len(b.client_host)
                          + DigitCount(b.client_port) + CommandLen + Len(b.path)

\* str.encode('utf-8') succeeds: the page holds no lone surrogate
Encodable(page) ==
  /\ \A k \in 1..Len(page.path) : page.path[k] # "SUR"
  /\ \A i \in 1..Len(page.items) :
       /\ \A k \in 1..Len(page.items[i].name) : page.items[i].name[k] # "SUR"
       /\ \A k \in 1..Len(page.items[i].href) : page.items[i].href[k] # "SUR"

\* A transport fault: the wfile.write calls of one request are numbered from
\* 1; when the client has gone away before write number fault, that write
\* and every later one raise BrokenPipeError (an OSError).  0: no fault.
NoFault == 0
MaxFaultAt == 2
Faults == 0..MaxFaultAt
WriteFails(fault, w) == fault > 0 /\ w >= fault

\* A writer: the writes made so far (out), their number (n), and whether the
\* last send raised OSError.
Writer0 == [out |-> <<>>, n |-> 0, raised |-> FALSE]

HeadEv(status, ctype, clen, ok) ==
  [ev |-> "head", status |-> status, ctype |-> ctype, clen |-> clen, ok |-> ok]
BodyEv(body, ok) == [ev |-> "body", body |-> body, ok |-> ok]

\* send_response(status); send_header("Content-Type", ctype);
\* send_header("Content-Length", str(len(body))); end_headers();
\* wfile.write(body): end_headers writes the head, then the body is written
Send(w, status, ctype, body, fault) ==
  IF WriteFails(fault, w.n + 1)
  THEN [out |-> Append(w.out, HeadEv(status, ctype, BodyLen(body), FALSE)),
        n |-> w.n + 1, raised |-> TRUE]
  ELSE LET ok == ~WriteFails(fault, w.n + 2) IN
       [out |-> w.out \o <<HeadEv(status, ctype, BodyLen(body), TRUE), BodyEv(body, ok)>>,
        n |-> w.n + 2, raised |-> ~ok]

StatusOk == 200

handle_error(w, path, msg, status, fault) ==
  Send(w, status, "text/html", ErrorPage(path, msg), fault)

send_content(w, content, fault) == Send(w, StatusOk, "text/html", content, fault)

(***************************************************************************)
(* The actions of the cases                                                *)
(***************************************************************************)
\* What a call leaves behind: the writer, and the exception it raised.
Ok(w) == [w |-> w, exc |-> "none", msg |-> Msg("", <<>>, <<>>)]
Raise(w, exc, msg) == [w |-> w, exc |-> exc, msg |-> msg]

\* the MIME table with the ".jpeg" alternative left out
ContentTypeNoJpeg(full_path) ==
  IF EndsWith(full_path, <<".", "h", "t", "m", "l">>) THEN "text/html"
  ELSE IF EndsWith(full_path, <<".", "c", "s", "s">>) THEN "text/css"
  ELSE IF EndsWith(full_path, <<".", "j", "s">>) THEN "application/javascript"
  ELSE IF EndsWith(full_path, <<".", "p", "n", "g">>) THEN "image/png"
  ELSE IF EndsWith(full_path, <<".", "j", "p", "g">>) THEN "image/jpeg"
  ELSE "text/plain"

\* the MIME table of RequestHandler.handle_file
ContentType(full_path) ==
  IF EndsWith(full_path, <<".", "h", "t", "m", "l">>) THEN "text/html"
  ELSE IF EndsWith(full_path, <<".", "c", "s", "s">>) THEN "text/css"
  ELSE IF EndsWith(full_path, <<".", "j", "s">>) THEN "application/javascript"
  ELSE IF EndsWith(full_path, <<".", "p", "n", "g">>) THEN "image/png"
  ELSE IF \/ EndsWith(full_path, <<".", "j", "p", "g">>)
          \/ EndsWith(full_path, <<".", "j", "p", "e", "g">>) THEN "image/jpeg"
  ELSE "text/plain"

\* RequestHandler.handle_file: IOError (an alias of OSError, so a failed
\* write too) becomes ServerException
handle_file(w, f, full_path, fault) ==
  IF ~CanOpen(f, full_path)
  THEN Raise(w, "ServerException", Msg("Cannot read file", full_path, <<>>))
  ELSE LET s == Send(w, StatusOk, ContentType(full_path),
                     Bytes(Node(f, full_path).content), fault)
       IN IF s.raised
          THEN Raise(s, "ServerException", Msg("Cannot read file", full_path, <<>>))
          ELSE Ok(s)

\* index_path that forgets to join 'index.html'
IndexPathSelf(full_path) == full_path

\* BaseCase.index_path
index_path(full_path) == PathJoin(full_path, N_index)

\* RequestHandler.list_dir
list_dir(w, f, path, full_path, fault) ==
  IF ~CanList(f, full_path)
  THEN Raise(w, "ServerException", Msg("cannot be listed", path, <<"OSError">>))
  ELSE LET entries == Sorted(ListDirNames(f, full_path))
           vis == SelectVisible(entries)
           items == [i \in 1..Len(vis) |-> ListItem(PathJoin(path, vis[i]), vis[i])]
           page == ListingPage(path, items)
       IN IF ~Encodable(page)
          THEN Raise(w, "Exception", Msg("", <<>>, <<"UnicodeEncodeError">>))
          ELSE LET s == send_content(w, page, fault)
               IN IF s.raised
                  THEN Raise(s, "ServerException",
                             Msg("cannot be listed", path, <<"OSError">>))
                  ELSE Ok(s)

StatusInternal == 500

\* RequestHandler.run_cgi: the script's content is <<exit status, stdout...>>;
\* an unreadable or failing script makes subprocess.run raise
\* CalledProcessError.  An OSError raised inside an except clause leaves
\* run_cgi.
run_cgi(w, f, path, full_path, fault) ==
  LET c == Node(f, full_path).content
      failed == ~CanOpen(f, full_path) \/ (c # <<>> /\ c[1] # 0)
  IN IF failed
     THEN LET h == handle_error(w, path, Msg("CGI script error", <<>>, <<"stderr">>),
                                StatusInternal, fault)
          IN IF h.raised THEN Raise(h, "Exception", Msg("", <<>>, <<"OSError">>))
             ELSE Ok(h)
     ELSE LET s == send_content(w, Bytes(IF c = <<>> THEN c ELSE Tail(c)), fault)
          IN IF ~s.raised THEN Ok(s)
             ELSE LET h == handle_error(s, path,
                                        Msg("Error running CGI", <<>>, <<"OSError">>),
                                        StatusInternal, fault)
                  IN IF h.raised THEN Raise(h, "Exception", Msg("", <<>>, <<"OSError">>))
                     ELSE Ok(h)

\* case.test(handler)
Test(case, f, full_path) ==
  CASE case = "CaseNoFile" -> ~Exists(f, full_path)
    [] case = "CaseExistingFile" -> IsFile(f, full_path)
    [] case = "CaseDirectoryIndexFile" ->
         IsDir(f, full_path) /\ IsFile(f, index_path(full_path))
    [] case = "CaseDirectoryNoIndexFile" ->
         IsDir(f, full_path) /\ ~IsFile(f, index_path(full_path))
    [] case = "CaseCGIFile" ->
         IsFile(f, full_path) /\ EndsWith(full_path, <<".", "p", "y">>)
    [] case = "CaseAlwaysFail" -> TRUE

\* case.act(handler)
Act(case, w, f, path, full_path, fault) ==
  CASE case = "CaseNoFile" ->
         Raise(w, "ServerException", Msg("not found", path, <<>>))
    [] case = "CaseExistingFile" -> handle_file(w, f, full_path, fault)
    [] case = "CaseDirectoryIndexFile" -> handle_file(w, f, index_path(full_path), fault)
    [] case = "CaseDirectoryNoIndexFile" -> list_dir(w, f, path, full_path, fault)
    [] case = "CaseCGIFile" -> run_cgi(w, f, path, full_path, fault)
    [] case = "CaseAlwaysFail" ->
         Raise(w, "ServerException", Msg("Unknown object", path, <<>>))

\* RequestHandler.CASES as constructed
CasesInit ==
  <<"CaseNoFile", "CaseExistingFile", "CaseDirectoryIndexFile",
    "CaseDirectoryNoIndexFile", "CaseCGIFile", "CaseAlwaysFail">>

(***************************************************************************)
(* The handlers                                                            *)
(***************************************************************************)
\* ROOT_PAGE.format(**values)
RootPage(path, client, now) ==
  [type |-> "root", date_time |-> now, client_host |-> client.host,
   client_port |-> client.port, command |-> "GET", path |-> path]

\* self.full_path = os.path.abspath(os.getcwd() + self.path)
ResolvePath(path) == Abspath(CWD \o path)

\* the security check of do_GET
TraversalCheck(full_path) == StartsWith(full_path, CWD)

\* the loop without its break: the last case whose test is true acts last
LastMatch(cases, i, f, full_path) ==
  LET hits == {j \in i..Len(cases) : Test(cases[j], f, full_path)}
  IN IF hits = {} THEN 0 ELSE CHOOSE j \in hits : \A h \in hits : h <= j

\* the for loop of do_GET: the index of the first case whose test is true,
\* 0 when the loop ends without one
RECURSIVE FirstMatch(_, _, _, _)
FirstMatch(cases, i, f, full_path) ==
  IF i > Len(cases) THEN 0
  ELSE IF Test(cases[i], f, full_path) THEN i
  ELSE FirstMatch(cases, i + 1, f, full_path)

\* the try body of do_GET
GetBody(cases, f, path, client, now, fault) ==
  IF path = <<"/">>
  THEN LET s == send_content(Writer0, RootPage(path, client, now), fault)
       IN [full_path |-> <<>>, passed |-> FALSE, tested |-> <<>>, acted |-> <<>>,
           o |-> IF s.raised THEN Raise(s, "Exception", Msg("", <<>>, <<"OSError">>))
                 ELSE Ok(s)]
  ELSE LET full_path == ResolvePath(path) IN
       IF ~TraversalCheck(full_path)
       THEN [full_path |-> full_path, passed |-> FALSE, tested |-> <<>>, acted |-> <<>>,
             o |-> Raise(Writer0, "ServerException",
                         Msg("Attempted directory traversal", <<>>, <<>>))]
       ELSE LET k == FirstMatch(cases, 1, f, full_path) IN
            [full_path |-> full_path, passed |-> TRUE,
             tested |-> SubSeq(cases, 1, IF k = 0 THEN Len(cases) ELSE k),
             acted |-> IF k = 0 THEN <<>> ELSE <<cases[k]>>,
             o |-> IF k = 0 THEN Ok(Writer0)
                   ELSE Act(cases[k], Writer0, f, path, full_path, fault)]

\* the first except clause answering like the second
StatusAsInternal == StatusInternal

\* the status of the first except clause of do_GET
StatusServerException == 404

\* do_GET with its except clauses; an OSError raised by handle_error inside
\* an except clause leaves the handler (escaped)
do_GET(cases, f, path, client, now, fault) ==
  LET b == GetBody(cases, f, path, client, now, fault)
      fin == IF b.o.exc = "ServerException"
             THEN handle_error(b.o.w, path, b.o.msg, StatusServerException, fault)
             ELSE IF b.o.exc = "Exception"
             THEN handle_error(b.o.w, path,
                               Msg("Internal server error", b.o.msg.arg, b.o.msg.exc),
                               StatusInternal, fault)
             ELSE b.o.w
  IN [full_path |-> b.full_path, passed |-> b.passed, tested |-> b.tested,
      acted |-> b.acted, out |-> fin.out,
      escaped |-> b.o.exc # "none" /\ fin.raised]

\* b"Received: "
ReceivedPrefix == <<"R", "e", "c", "e", "i", "v", "e", "d", ":", " ">>

\* The Content-Length header of a request: absent, not a number, or n.
NoCL == [present |-> FALSE, valid |-> TRUE, n |-> 0]
BadCL == [present |-> TRUE, valid |-> FALSE, n |-> 0]
CL(n) == [present |-> TRUE, valid |-> TRUE, n |-> n]

\* rfile.read() that ignores Content-Length
ReadAll(cl, stream) == stream

\* self.rfile.read(content_length) on the bytes the client sent
ReadBody(cl, stream) ==
  SubSeq(stream, 1, IF cl.n < Len(stream) THEN cl.n ELSE Len(stream))

\* do_POST with its except clause
do_POST(cl, stream, path, fault) ==
  LET o == IF ~cl.valid
           THEN Raise(Writer0, "Exception", Msg("", <<>>, <<"ValueError">>))
           ELSE LET response == ReceivedPrefix \o ReadBody(cl, stream)
                    s == Send(Writer0, StatusOk, "text/plain", Bytes(response), fault)
                IN IF s.raised
                   THEN Raise(s, "Exception", Msg("", <<>>, <<"OSError">>))
                   ELSE Ok(s)
      fin == IF o.exc = "none" THEN o.w
             ELSE handle_error(o.w, path,
                               Msg("Error processing POST", o.msg.arg, o.msg.exc),
                               StatusInternal, fault)
  IN [full_path |-> <<>>, passed |-> FALSE, tested |-> <<>>, acted |-> <<>>,
      out |-> fin.out, escaped |-> o.exc # "none" /\ fin.raised]

(***************************************************************************)
(* Inputs                                                                  *)
(***************************************************************************)
MaxBody == 2
MaxTime == 2

Hello == <<"h", "e", "l", "l", "o", "w">>
Streams == {SubSeq(Hello, 1, n) : n \in 0..MaxBody}
ContentLengths(stream) == {NoCL, BadCL} \cup {CL(n) : n \in 0..Len(stream)}
Times == 1..MaxTime
Clients == {[host |-> <<"1">>, port |-> 7], [host |-> <<"2">>, port |-> 70]}

Up == <<"/", ".", ".">>
GetPaths ==
  {<<"/">>,
   <<"/">> \o N_a_html, <<"/">> \o N_c_css, <<"/">> \o N_j_js, <<"/">> \o N_js,
   <<"/">> \o N_p_png, <<"/">> \o N_q_jpg, <<"/">> \o N_r_jpeg, <<"/">> \o N_t_txt,
   <<"/">> \o N_x_py, <<"/">> \o N_y_py, <<"/">> \o N_f, <<"/">> \o N_nope,
   <<"/">> \o N_d, <<"/">> \o N_d \o <<"/">>, <<"/">> \o N_d \o <<"/">> \o N_index,
   <<"/">> \o N_d \o Up \o <<"/">> \o N_a_html,
   <<"/", ".">>, Up, Up \o <<"/", "s", "2", "/", "x">>, Up \o <<"/", "e">>}
PostPaths == {<<"/">>, <<"/">> \o N_a_html}

NoReq == [method |-> "none", path |-> <<>>, cl |-> NoCL, stream |-> <<>>]
NoRes ==
  [full_path |-> <<>>, passed |-> FALSE, tested |-> <<>>, acted |-> <<>>,
   out |-> <<>>, escaped |-> FALSE]
NoPrev == [req |-> NoReq, res |-> NoRes]

AllowedFaults == IF transport = "faulty" THEN Faults ELSE {NoFault}

(***************************************************************************)
(* The state machine: HTTPServer.serve_forever handles one request at a    *)
(* time; pc is "idle" between requests and "done" when the handler has     *)
(* returned and its connection is not yet closed.  prev is a history       *)
(* variable: the request handled before this one and its result, since     *)
(* the file system last changed (kept when keep is set).                   *)
(***************************************************************************)
\* a loop that pops the case it tried
CasesPopped == IF CASES = <<>> THEN CASES ELSE Tail(CASES)

\* the chain after a request was handled: the loop only reads it
CasesAfter == CASES

\* the file system after a handler ran: tests and actions only read it
FsAfter == fs

InitWith(t, k) ==
  /\ fs \in FsStates
  /\ CASES = CasesInit
  /\ pc = "idle"
  /\ req = NoReq
  /\ res = NoRes
  /\ prev = NoPrev
  /\ transport = t
  /\ keep = k

Init == InitWith("reliable", FALSE)
InitHist == InitWith("reliable", TRUE)
InitFault == InitWith("faulty", FALSE)

\* one GET request, from arrival to the return of do_GET
DoGET(path, client, now, fault) ==
  /\ pc = "idle"
  /\ pc' = "done"
  /\ req' = [method |-> "GET", path |-> path, cl |-> NoCL, stream |-> <<>>]
  /\ res' = do_GET(CASES, fs, path, client, now, fault)
  /\ CASES' = CasesAfter
  /\ fs' = FsAfter
  /\ UNCHANGED <<prev, transport, keep>>

\* one POST request, from arrival to the return of do_POST
DoPOST(path, cl, stream, fault) ==
  /\ pc = "idle"
  /\ pc' = "done"
  /\ req' = [method |-> "POST", path |-> path, cl |-> cl, stream |-> stream]
  /\ res' = do_POST(cl, stream, path, fault)
  /\ CASES' = CasesAfter
  /\ fs' = FsAfter
  /\ UNCHANGED <<prev, transport, keep>>

\* the connection is closed and the handler object dropped
Finish ==
  /\ pc = "done"
  /\ pc' = "idle"
  /\ prev' = IF keep THEN [req |-> req, res |-> res] ELSE NoPrev
  /\ req' = NoReq
  /\ res' = NoRes
  /\ UNCHANGED <<fs, CASES, transport, keep>>

\* the environment creates, removes or chmods one node between two requests;
\* the requests handled before are then over
FsChange(p, node) ==
  /\ pc = "idle"
  /\ fs[p] # node
  /\ fs' = [fs EXCEPT ![p] = node]
  /\ prev' = NoPrev
  /\ UNCHANGED <<CASES, pc, req, res, transport, keep>>

\* Only send_root_page reads the client address and the clock, so the other
\* paths are requested by one client at one time.
Next ==
  \/ \E client \in Clients, now \in Times, fault \in AllowedFaults :
       DoGET(<<"/">>, client, now, fault)
  \/ \E path \in GetPaths \ {<<"/">>}, fault \in AllowedFaults :
       DoGET(path, CHOOSE c \in Clients : TRUE, 1, fault)
  \/ \E path \in PostPaths, stream \in Streams, fault \in AllowedFaults :
       \E cl \in ContentLengths(stream) : DoPOST(path, cl, stream, fault)
  \/ Finish
  \/ \E a \in AHtmlStates : FsChange(InRoot(N_a_html), a)
  \/ \E d \in DStates : FsChange(InRoot(N_d), d)
  \/ \E i \in IndexStates : FsChange(InD(N_index), i)
  \/ \E u \in SurStates : FsChange(InD(N_sur), u)

Spec == Init /\ [][Next]_vars
SpecHist == InitHist /\ [][Next]_vars
SpecFault == InitFault /\ [][Next]_vars

(***************************************************************************)
(* Vocabulary of the claims                                                *)
(***************************************************************************)
GetDone == pc = "done" /\ req.method = "GET"
PostDone == pc = "done" /\ req.method = "POST"

\* the chain as the specification orders it
ChainOrder ==
  <<"CaseNoFile", "CaseExistingFile", "CaseDirectoryIndexFile",
    "CaseDirectoryNoIndexFile", "CaseCGIFile", "CaseAlwaysFail">>

\* the canonical path p is root itself or lies below it, component by component
Within(p, root) ==
  LET c == NormComps(Split(p), <<>>)
      r == NormComps(Split(root), <<>>)
  IN Len(c) >= Len(r) /\ SubSeq(c, 1, Len(r)) = r

\* a complete response: one head and one body, both written
OneResponse(out) ==
  /\ Len(out) = 2
  /\ out[1].ev = "head" /\ out[1].ok
  /\ out[2].ev = "body" /\ out[2].ok
  /\ out[1].clen = BodyLen(out[2].body)

IsErrorPage(out, path, kinds) ==
  /\ OneResponse(out)
  /\ out[1].ctype = "text/html"
  /\ out[2].body.type = "error"
  /\ out[2].body.path = path
  /\ out[2].body.msg.kind \in kinds

ErrKind(out) == IF out[2].body.type = "error" THEN out[2].body.msg.kind ELSE "none"

\* the extension of a path: what follows the last "." of its last component
Ext(p) ==
  LET name == LET c == Split(p) IN c[Len(c)]
      dots == {i \in 1..Len(name) : name[i] = "."}
  IN IF dots = {} THEN <<"none">>
     ELSE LET last == CHOOSE i \in dots : \A j \in dots : j <= i
          IN SubSeq(name, last + 1, Len(name))

ExpectedType(p) ==
  LET e == Ext(p) IN
  CASE e = <<"h", "t", "m", "l">> -> "text/html"
    [] e = <<"c", "s", "s">> -> "text/css"
    [] e = <<"j", "s">> -> "application/javascript"
    [] e = <<"p", "n", "g">> -> "image/png"
    [] e = <<"j", "p", "g">> -> "image/jpeg"
    [] e = <<"j", "p", "e", "g">> -> "image/jpeg"
    [] OTHER -> "text/plain"

IndexOf(dir) == dir \o <<"/", "i", "n", "d", "e", "x", ".", "h", "t", "m", "l">>

VisibleNames(f, dir) == {n \in ListDirNames(f, dir) : n[1] # "."}

HasSurrogate(n) == \E k \in 1..Len(n) : n[k] = "SUR"

\* this request is GET d and the one before it was GET d/index.html, for a
\* directory d of the root that holds a regular file index.html
DirAfterIndex ==
  /\ GetDone /\ res.passed
  /\ prev.req.method = "GET"
  /\ prev.req.path = PathJoin(req.path, N_index)
  /\ IsDir(fs, res.full_path)
  /\ Within(res.full_path, CWD)
  /\ IsFile(fs, IndexOf(res.full_path))

\* the same two requests in the other order
IndexAfterDir ==
  /\ GetDone /\ res.passed
  /\ prev.req.method = "GET" /\ prev.res.passed
  /\ req.path = PathJoin(prev.req.path, N_index)
  /\ IsDir(fs, prev.res.full_path)
  /\ Within(prev.res.full_path, CWD)
  /\ IsFile(fs, IndexOf(prev.res.full_path))

IsListingOf(out, path, names) ==
  /\ OneResponse(out)
  /\ out[1].status = 200
  /\ out[1].ctype = "text/html"
  /\ out[2].body.type = "listing"
  /\ out[2].body.path = path
  /\ LET items == out[2].body.items IN
       /\ {items[i].name : i \in 1..Len(items)} = names
       /\ Len(items) = Cardinality(names)
       /\ \A i, j \in 1..Len(items) : i < j => StrLess(items[i].name, items[j].name)
       /\ \A i \in 1..Len(items) :
            items[i].href =
              (IF path[Len(path)] = "/" THEN path ELSE path \o <<"/">>) \o items[i].name

DirWithoutIndex ==
  /\ GetDone /\ res.passed
  /\ IsDir(fs, res.full_path)
  /\ ~IsFile(fs, IndexOf(res.full_path))

Kinds404 ==
  {"Attempted directory traversal", "not found", "Unknown object",
   "Cannot read file", "cannot be listed"}
Kinds500 == {"CGI script error", "Error running CGI", "Internal server error"}

\* what run_cgi answers for the requested path on a sound connection
ScriptAnswer == run_cgi(Writer0, fs, req.path, res.full_path, NoFault).w.out

HeadsStarted(out) == Cardinality({i \in 1..Len(out) : out[i].ev = "head"})

\* the body a request carries: what Content-Length says, nothing without it
BodyOf(r) == IF r.cl.present /\ r.cl.valid THEN SubSeq(r.stream, 1, r.cl.n) ELSE <<>>

\* this request and the one before it agree in method, path and body
SameMethodPathBody ==
  /\ pc = "done"
  /\ prev.req.method = req.method
  /\ prev.req.path = req.path
  /\ BodyOf(prev.req) = BodyOf(req)

\* the tests the handler ran give the same answers when run again
TestsRepeat ==
  (GetDone /\ res.passed) =>
    \A j \in 1..Len(res.tested) :
      Test(res.tested[j], fs, res.full_path) <=> (j = Len(res.tested))

(***************************************************************************)
(* C1: a GET whose canonical path is neither the root nor below it (a      *)
(* sibling such as /s2/x included) ends in the traversal error, and no     *)
(* case is tested or run on the path.                                      *)
(***************************************************************************)
C1_TraversalRejected ==
  (GetDone /\ req.path # <<"/">> /\ ~Within(Abspath(CWD \o req.path), CWD))
    => /\ IsErrorPage(res.out, req.path, {"Attempted directory traversal"})
       /\ res.tested = <<>>
       /\ res.acted = <<>>

(***************************************************************************)
(* C2: a GET that passed the traversal check tested the cases in the       *)
(* fixed order up to the first whose test is true, ran that case's action  *)
(* and no other, and tested no later case.                                 *)
(***************************************************************************)
C2_FirstMatchWins ==
  (GetDone /\ res.passed)
    => \E k \in 1..Len(ChainOrder) :
         /\ res.tested = SubSeq(ChainOrder, 1, k)
         /\ res.acted = <<ChainOrder[k]>>
         /\ Test(ChainOrder[k], fs, res.full_path)
         /\ \A j \in 1..(k - 1) : ~Test(ChainOrder[j], fs, res.full_path)

\* a script was requested: two tests are true, the earlier case acted
C2_Witness ==
  /\ GetDone /\ res.passed
  /\ Test("CaseExistingFile", fs, res.full_path)
  /\ Test("CaseCGIFile", fs, res.full_path)
  /\ res.acted = <<"CaseExistingFile">>

(***************************************************************************)
(* C3: a GET whose resolved path is an existing, readable regular file is  *)
(* answered 200 with the file's bytes, their length as Content-Length and  *)
(* the Content-Type the extension table gives.                             *)
(***************************************************************************)
C3_FileServed ==
  (GetDone /\ res.passed /\ IsFile(fs, res.full_path) /\ fs[res.full_path].readable)
    => res.out = <<HeadEv(200, ExpectedType(res.full_path),
                          Len(fs[res.full_path].content), TRUE),
                   BodyEv(Bytes(fs[res.full_path].content), TRUE)>>

C3_Witness ==
  /\ GetDone /\ res.passed
  /\ res.full_path = InRoot(N_r_jpeg)
  /\ OneResponse(res.out)
  /\ res.out[1].ctype = "image/jpeg"

(***************************************************************************)
(* C4 as stated: for a directory d holding a regular file index.html and   *)
(* an unchanged file system, GET d and GET d/index.html are answered with  *)
(* the same status, Content-Type, Content-Length and body.                 *)
(***************************************************************************)
C4_IndexSameAsDir_AsStated ==
  (DirAfterIndex \/ IndexAfterDir) => res.out = prev.res.out

(***************************************************************************)
(* C4 amended: the same, for a directory whose index.html is a readable    *)
(* regular file.                                                           *)
(***************************************************************************)
C4_IndexSameAsDir ==
  /\ (DirAfterIndex /\ fs[IndexOf(res.full_path)].readable)
       => (res.out = prev.res.out /\ OneResponse(res.out))
  /\ (IndexAfterDir /\ fs[IndexOf(prev.res.full_path)].readable)
       => (res.out = prev.res.out /\ OneResponse(res.out))

C4_Witness ==
  /\ DirAfterIndex
  /\ fs[IndexOf(res.full_path)].readable
  /\ req.path = <<"/", "d", "/">>
  /\ res.out[1].status = 200
  /\ res.out[2].body = Bytes(IndexContent)

(***************************************************************************)
(* C5 as stated: a GET whose resolved path is a directory without a        *)
(* regular file index.html is answered 200 with a listing whose items are  *)
(* exactly the entries not starting with ".", one each, in ascending       *)
(* order, each linking to the request path joined with the entry name.     *)
(***************************************************************************)
C5_Listing_AsStated ==
  DirWithoutIndex => IsListingOf(res.out, req.path, VisibleNames(fs, res.full_path))

(***************************************************************************)
(* C5 amended: the same, for a directory that can be listed and whose      *)
(* visible entry names are encodable as UTF-8.                             *)
(***************************************************************************)
C5_Listing ==
  (/\ DirWithoutIndex
   /\ fs[res.full_path].readable
   /\ \A n \in VisibleNames(fs, res.full_path) : ~HasSurrogate(n))
    => IsListingOf(res.out, req.path, VisibleNames(fs, res.full_path))

\* /d holds .h, a, b and a directory named index.html: all but .h are listed
C5_Witness ==
  /\ DirWithoutIndex
  /\ res.full_path = InRoot(N_d)
  /\ IsFile(fs, InD(N_hid))
  /\ IsDir(fs, InD(N_index))
  /\ IsListingOf(res.out, req.path, {N_a, N_b, N_index})

(***************************************************************************)
(* C6: a failed GET is answered with the error page embedding the request  *)
(* path and a message; the status is 404 for a traversal attempt, a        *)
(* missing path, an unrecognized object and an unreadable file or          *)
(* directory, 500 for a script failure and any other fault, and no other   *)
(* status is used.                                                         *)
(***************************************************************************)
C6_ErrorStatus ==
  GetDone =>
    /\ OneResponse(res.out)
    /\ res.out[1].status \in {200, 404, 500}
    /\ res.out[1].status = 404 => IsErrorPage(res.out, req.path, Kinds404)
    /\ res.out[1].status = 500 => IsErrorPage(res.out, req.path, Kinds500)
    /\ res.out[2].body.type = "error" => res.out[1].status # 200
    \* the causes
    /\ (req.path # <<"/">> /\ ~res.passed)
         => (res.out[1].status = 404
             /\ ErrKind(res.out) = "Attempted directory traversal")
    /\ (res.passed /\ Node(fs, res.full_path).kind = "none")
         => (res.out[1].status = 404 /\ ErrKind(res.out) = "not found")
    /\ (res.passed /\ Node(fs, res.full_path).kind = "other")
         => (res.out[1].status = 404 /\ ErrKind(res.out) = "Unknown object")
    /\ (res.passed /\ IsFile(fs, res.full_path) /\ ~Node(fs, res.full_path).readable)
         => (res.out[1].status = 404 /\ ErrKind(res.out) = "Cannot read file")
    /\ (res.passed /\ IsDir(fs, res.full_path) /\ IsFile(fs, IndexOf(res.full_path))
          /\ ~Node(fs, IndexOf(res.full_path)).readable)
         => (res.out[1].status = 404 /\ ErrKind(res.out) = "Cannot read file")
    /\ (DirWithoutIndex /\ ~Node(fs, res.full_path).readable)
         => (res.out[1].status = 404 /\ ErrKind(res.out) = "cannot be listed")
    /\ (DirWithoutIndex /\ Node(fs, res.full_path).readable
          /\ \E n \in VisibleNames(fs, res.full_path) : HasSurrogate(n))
         => (res.out[1].status = 500 /\ ErrKind(res.out) = "Internal server error")
    \* a script that exits with a status other than 0, where run_cgi is called
    /\ (res.passed /\ IsFile(fs, res.full_path) /\ fs[res.full_path].readable
          /\ EndsWith(res.full_path, <<".", "p", "y">>)
          /\ fs[res.full_path].content[1] # 0)
         => (IsErrorPage(ScriptAnswer, req.path, {"CGI script error"})
             /\ ScriptAnswer[1].status = 500)

\* an unreadable file was requested and answered 404
C6_Witness ==
  /\ GetDone /\ res.passed
  /\ IsFile(fs, res.full_path) /\ ~fs[res.full_path].readable
  /\ IsErrorPage(res.out, req.path, {"Cannot read file"})
  /\ res.out[1].status = 404

(***************************************************************************)
(* C7: a POST with a numeric or absent Content-Length, whatever its path,  *)
(* is answered 200 text/plain with body "Received: " followed by the body  *)
(* read, and Content-Length 10 plus its length; no case is tested or run.  *)
(***************************************************************************)
C7_PostEcho ==
  (PostDone /\ req.cl.valid)
    => LET n == IF req.cl.present THEN req.cl.n ELSE 0
           b == SubSeq(req.stream, 1, n)
       IN /\ res.out =
               <<HeadEv(200, "text/plain", 10 + Len(b), TRUE),
                 BodyEv(Bytes(<<"R", "e", "c", "e", "i", "v", "e", "d", ":", " ">> \o b),
                        TRUE)>>
          /\ res.tested = <<>>
          /\ res.acted = <<>>
          /\ res.full_path = <<>>

C7_Witness ==
  /\ PostDone
  /\ req.path # <<"/">>
  /\ req.cl = CL(2)
  /\ req.stream = <<"h", "e">>
  /\ res.out[1].clen = 12

(***************************************************************************)
(* C8: every request is answered by exactly one response, also when a      *)
(* write to the client fails part-way: no second response is started, the  *)
(* handler does not return without one, and no fault leaves the handler.   *)
(***************************************************************************)
C8_ExactlyOneResponse ==
  pc = "done" =>
    /\ ~res.escaped
    /\ HeadsStarted(res.out) = 1
    /\ (\A i \in 1..Len(res.out) : res.out[i].ok) => OneResponse(res.out)

(***************************************************************************)
(* C9: every case of the chain can be selected; in particular a GET for    *)
(* an existing regular file whose name ends in ".py" selects the script    *)
(* case, which runs it and returns its standard output.                    *)
(***************************************************************************)
C9_ScriptSelected ==
  (/\ GetDone /\ res.passed
   /\ IsFile(fs, res.full_path)
   /\ EndsWith(res.full_path, <<".", "p", "y">>))
    => res.acted = <<"CaseCGIFile">>

C10_Determined ==
  /\ CASES = ChainOrder
  /\ TestsRepeat
  /\ (/\ SameMethodPathBody
      /\ prev.req.cl.valid = req.cl.valid
      /\ ~(req.method = "GET" /\ req.path = <<"/">>))
       => res = prev.res

\* in every step of a handler: file system and chain stay as they are
C10_HandlerFrame ==
  (pc = "idle" /\ pc' = "done") => (fs' = fs /\ CASES' = CASES)

====
